---------------------------- MODULE Spec2Model ----------------------------
(***************************************************************************)
(* Model of OpenPNM's ViscousDrainage algorithm                            *)
(* (src/OpenPNM/Algorithms/__ViscousDrainage__.py).                        *)
(*                                                                         *)
(* Numbers.  The source works in floating point.  The model works in       *)
(* fixed point:                                                            *)
(*   - a fraction (inv_frac, meniscus position, dx_max, dv_max, sat_tol)   *)
(*     is an integer number of 1/ONE, so 1.0 is ONE, 0.03 is 3;            *)
(*   - a time (dt, _total_time) is an integer number of 1/(ONE*TimeScale)  *)
(*     time units;                                                         *)
(*   - volumes, areas, lengths, pressures and flows are integers;          *)
(*   - a conductance is an integer number of 1/ONE.                        *)
(* A float division becomes a division truncated towards zero (Div0).      *)
(* With the networks and rates below every division whose divisor is the   *)
(* element that limits dt is exact.                                        *)
(*                                                                         *)
(* Control.  pc is the position of the caller and of the outer loop:       *)
(*   "new"   constructed, setup not yet completed                          *)
(*   "ready" setup completed; set_inlets / set_outlets / run may be called *)
(*   "coef" "rhs" "solve" "dt" "export" "advance" "account" "test"         *)
(*           the next statement group of the loop body of                  *)
(*           _do_outer_iteration_stage                                     *)
(*   "done"  the loop was left by break                                    *)
(*   "error" the loop was left by an exception                             *)
(*   "unsolved" the linear system had no solution on the pressure grid     *)
(***************************************************************************)
EXTENDS Integers, Sequences, FiniteSets, TLC

(***************************************************************************)
(* Fixed-point scales and the numeric literals of the source.              *)
(***************************************************************************)
ONE == 100
TimeScale == 12
DxSmall == 3
DxLarge == 30
Half == 50
DvMax == 25
DefaultDtPercent == 1
ExportFull == 10000
ExportLight == 2000
SteadyTolInv == 1000000000

(***************************************************************************)
(* Bounds of the exploration.                                              *)
(***************************************************************************)
PMax == 24
MaxSetups == 1
MaxCfgCalls == 3
MaxReconfigCalls == 2
MaxMenisci == 3
MaxRestarts == 1
LongRun == 70
ShortRun == 1
RestartRun == 3

\* Python's None, for an argument that is a phase object
None == "None"

\* Python's None, for an argument that is a number; a number r is <<r>>
NoNumber == << >>

Abs(x) == IF x < 0 THEN -x ELSE x

Sign(x) == IF x < 0 THEN -1 ELSE IF x > 0 THEN 1 ELSE 0

\* float division a / b, truncated towards zero
Div0(a, b) == Sign(a) * Sign(b) * (Abs(a) \div Abs(b))

Pow(s, n) == IF n % 2 = 0 THEN 1 ELSE s

RECURSIVE SumOver(_, _)
SumOver(f, D) ==
    IF D = {} THEN 0
    ELSE LET x == CHOOSE y \in D : TRUE IN f[x] + SumOver(f, D \ {x})

\* the elements of a set of integers in ascending order (sp.where order)
RECURSIVE Ascending(_)
Ascending(D) ==
    IF D = {} THEN << >>
    ELSE LET x == CHOOSE y \in D : \A z \in D : y <= z
         IN <<x>> \o Ascending(D \ {x})

Reverse(s) == [i \in 1..Len(s) |-> s[Len(s) + 1 - i]]

(***************************************************************************)
(* The network (external collaborator, read only).  conns[th] is the pair  *)
(* of endpoint pores of throat th, lower index first.                      *)
(***************************************************************************)
PairConns == << <<1, 2>> >>
ChainConns == << <<1, 2>>, <<2, 3>> >>
TriangleConns == << <<1, 2>>, <<1, 3>>, <<2, 3>> >>

MkNet(conns, pvol, tvol, maxpc, dvisc) ==
    [conns |-> conns, pvol |-> pvol, tvol |-> tvol,
     tarea |-> [t \in DOMAIN conns |-> 1],
     tlen |-> [t \in DOMAIN conns |-> 1],
     gbase |-> [t \in DOMAIN conns |-> ONE],
     maxpc |-> maxpc,
     dvisc |-> [p \in DOMAIN pvol |-> dvisc],
     ivisc |-> [p \in DOMAIN pvol |-> 1]]

\* two pores and a throat with a capillary entry pressure
PairNet == MkNet(PairConns, <<1, 1>>, <<1>>, <<3>>, 1)

\* chains of three pores: with capillary entry pressures, with a throat of
\* zero volume, with a pore of zero volume, with a defending phase twice as
\* viscous as the invading phase
ChainNetCapillary == MkNet(ChainConns, <<1, 1, 1>>, <<1, 1>>, <<3, 3>>, 1)
ChainNetZeroVolThroat == MkNet(ChainConns, <<1, 1, 1>>, <<0, 1>>, <<0, 0>>, 1)
ChainNetZeroVolPore == MkNet(ChainConns, <<1, 0, 1>>, <<1, 1>>, <<0, 0>>, 1)
ChainNetViscous == MkNet(ChainConns, <<1, 1, 1>>, <<1, 1>>, <<0, 0>>, 2)

\* triangles: with capillary entry pressures, with a throat of zero volume
TriangleNetCapillary ==
    MkNet(TriangleConns, <<1, 1, 1>>, <<1, 1, 1>>, <<3, 3, 3>>, 1)
TriangleNetZeroVolThroat ==
    MkNet(TriangleConns, <<1, 1, 1>>, <<1, 0, 1>>, <<0, 3, 0>>, 1)

Networks ==
    { PairNet, ChainNetCapillary, ChainNetZeroVolThroat, ChainNetZeroVolPore,
      ChainNetViscous, TriangleNetCapillary, TriangleNetZeroVolThroat }

Rates == {6}

\* the sat_tol arguments passed to setup, in 1/ONE
SatTols == {2}
RateArgs == {NoNumber} \cup {<<r>> : r \in Rates}
Modes == {"add", "remove", "clear", "overwrite"}

\* The callers explored.  "configure" passes any pore set and mode and runs
\* a few steps; "drain" injects at pore 1 or 2, lets the last pore drain and
\* runs long; "reconfigure" injects at pore 1, lets the last pore drain,
\* runs a few steps and then calls set_inlets and set_outlets again before
\* it restarts the simulation; "redirect" injects at pore 1 and at the last
\* pore, lets pore 2 drain, runs a few steps, then injects at the last pore
\* only, lets pore 1 drain and restarts the simulation.
Callers == {"configure", "drain", "reconfigure", "redirect"}

\* the networks each caller is run on
NetworksOf(c) ==
    IF c = "drain"
    THEN {PairNet, ChainNetZeroVolThroat, ChainNetZeroVolPore,
          TriangleNetCapillary}
    ELSE IF c = "configure"
    THEN {PairNet, ChainNetViscous, TriangleNetZeroVolThroat}
    ELSE IF c = "reconfigure" THEN {ChainNetCapillary}
    ELSE {TriangleNetZeroVolThroat}

VARIABLES
    pc,             \* position of the caller / of the loop body
    err,            \* the exception raised by the last call, "none" if none
    net,            \* the network object the algorithm was built on
    inlets,         \* self['pore.inlets'], as the set of flagged pores
    outlets,        \* self['pore.outlets'], as the set of flagged pores
    outletsIdx,     \* self._outlets
    outletsSet,     \* whether the attribute self._outlets exists
    bcIn,           \* pores carrying the Neumann_group boundary condition
    pinv,           \* self['pore.inv_frac']
    tinv,           \* self['throat.inv_frac']
    pcontested,     \* self['pore.contested']
    tcontested,     \* self['throat.contested']
    pinvaded,       \* self['pore.invaded']
    inj_rate,       \* self._inj_rate
    th_q,           \* self._th_q
    pore_qsum,      \* self._pore_qsum
    menisci,        \* self._menisci
    sup_fact,       \* self._throat_sup_fact
    sat_tol,        \* self._sat_tol
    max_steps,      \* self._max_steps
    ts_num,         \* self._ts_num
    total_time,     \* self._total_time
    bt_time,        \* self.break_through_time
    bt_steps,       \* self.break_through_steps
    total_def_out,  \* self._total_def_out
    total_inv_out,  \* self._total_inv_out
    inv_out_rate,   \* self._inv_out_rate
    zero_dt,        \* self._zero_dt
    conductance,    \* self['throat.conductance']
    gdef,           \* self._gdef
    rhs,            \* the vector rhs_pcap_data handed to the solver
    pressure,       \* self['pore.pressure']
    dt,             \* the local dt of the loop body
    caller,         \* which caller drives the instance (not program state)
    hist            \* bookkeeping of the calls made (not program state)

solverState ==
    <<inlets, outlets, outletsIdx, outletsSet, bcIn, pinv, tinv, pcontested,
      tcontested, pinvaded, inj_rate, th_q, pore_qsum, menisci, sup_fact,
      sat_tol, max_steps, ts_num, total_time, bt_time, bt_steps,
      total_def_out, total_inv_out, inv_out_rate, zero_dt, conductance, gdef,
      rhs, pressure, dt>>

vars == <<pc, err, net, caller, hist, solverState>>

Pores == DOMAIN net.pvol
Throats == DOMAIN net.conns
P1(th) == net.conns[th][1]
P2(th) == net.conns[th][2]

\* self._net_vol, lines 121-122
NetVol == SumOver(net.pvol, Pores) + SumOver(net.tvol, Throats)

\* self._net.find_neighbor_throats(p), ascending throat index
NeighborThroats(p) == Ascending({th \in Throats : p \in {P1(th), P2(th)}})

ZeroT == [th \in Throats |-> 0]
ZeroP == [p \in Pores |-> 0]


(***************************************************************************)
(* Helper functions of the solver (lines 570-699).  They take the arrays   *)
(* they read as arguments so that the loops of _calculate_dt and           *)
(* _advance_interface can thread their intermediate values through them.   *)
(***************************************************************************)

\* self._pc_func = lambda x: sin(pi x), line 128, rounded to the nearest
\* integer multiple of the throat's entry pressure: sin(pi x) >= 1/2
\* exactly for x in [1/6, 5/6]
PcFunc(x) == IF 6 * x >= ONE /\ 6 * x <= 5 * ONE THEN 1 ELSE 0

\* _get_supply_facts for one throat, lines 589-601
SupplyFact(men, sup, th, ref_pore) ==
    IF ref_pore = P2(th) THEN sup[th] * Pow(-1, Len(men[th])) ELSE sup[th]

RECURSIVE FpcapLoop(_, _, _)
FpcapLoop(xs, f, mp) ==
    IF xs = << >> THEN 0
    ELSE f * PcFunc(Head(xs)) * mp + FpcapLoop(Tail(xs), -f, mp)

\* _sum_fpcap without the reversed loop order of lines 577-579 and 583
SumFpcapSameOrder(men, sup, th, ref_pore) ==
    FpcapLoop(men[th], -SupplyFact(men, sup, th, ref_pore), net.maxpc[th])

\* _sum_fpcap, lines 570-587
SumFpcap(men, sup, th, ref_pore) ==
    LET xs == IF ref_pore = P2(th) THEN Reverse(men[th]) ELSE men[th]
        f == -SupplyFact(men, sup, th, ref_pore)
    IN FpcapLoop(xs, f, net.maxpc[th])

\* q = -g * (pr1 - pr2 + fpc), lines 372, 402, 523
FlowFormula(g, pr1, pr2, fpc) == Div0(-(g * (pr1 - pr2 + fpc)), ONE)

\* lines 366-372, 397-402, 519-523
ThroatFlow(men, sup, cond, pr, th) ==
    FlowFormula(cond[th], pr[P1(th)], pr[P2(th)],
                SumFpcap(men, sup, th, P1(th)))

\* _set_dx_max without the clamps of lines 615-616 and 622-623
SetDxMaxNoClamp(men, q, th) ==
    LET ms == men[th]
        x == IF q < 0 THEN ms[Len(ms)] ELSE ms[1]
    IN IF q < 0 /\ x > Half
       THEN IF ms[1] < Half THEN DxSmall ELSE DxLarge
       ELSE IF q > 0 /\ x < Half
       THEN IF ms[Len(ms)] > Half THEN DxSmall ELSE DxLarge
       ELSE DxSmall

\* _set_dx_max, lines 603-626
SetDxMax(men, q, th) ==
    LET ms == men[th]
        x == IF q < 0 THEN ms[Len(ms)] ELSE ms[1]
    IN IF q < 0 /\ x > Half
       THEN LET d == IF ms[1] < Half THEN DxSmall ELSE DxLarge
            IN IF d > ONE - x THEN ONE - x ELSE d
       ELSE IF q > 0 /\ x < Half
       THEN LET d == IF ms[Len(ms)] > Half THEN DxSmall ELSE DxLarge
            IN IF d > x THEN x ELSE d
       ELSE DxSmall

\* _set_dv_max, lines 628-638
SetDvMax(frac, q) ==
    IF q > 0 /\ ONE - frac < DvMax THEN ONE - frac
    ELSE IF q < 0 /\ frac < DvMax THEN frac
    ELSE DvMax

\* Python's round() of a fraction, as an integer: nearest, ties to even
Round(frac) ==
    LET fl == frac \div ONE
        r == frac % ONE
    IN IF 2 * r < ONE THEN fl
       ELSE IF 2 * r > ONE THEN fl + 1
       ELSE IF fl % 2 = 0 THEN fl ELSE fl + 1

\* The arrays _advance_interface and its helpers update, as one record.
AdvState ==
    [men |-> menisci, tinv |-> tinv, pinv |-> pinv, sup |-> sup_fact,
     tcont |-> tcontested, pcont |-> pcontested, pinvd |-> pinvaded]

\* _set_menisci with the new meniscus put at the other end of the list
SetMeniscusAtFarEnd(st, base_pore, th, q) ==
    IF base_pore = P2(th)
    THEN IF q[th] < 0 THEN st
         ELSE [st EXCEPT !.men[th] = <<ONE>> \o @, !.tcont[th] = TRUE]
    ELSE IF q[th] > 0 THEN st
         ELSE [st EXCEPT !.men[th] = Append(@, 0), !.sup[th] = -@,
                         !.tcont[th] = TRUE]

\* _set_menisci without the tests of the flow, lines 688-689 and 693-694
SetMeniscusWhateverFlow(st, base_pore, th, q) ==
    IF base_pore = P2(th)
    THEN [st EXCEPT !.men[th] = Append(@, ONE), !.tcont[th] = TRUE]
    ELSE [st EXCEPT !.men[th] = <<0>> \o @, !.sup[th] = -@,
                    !.tcont[th] = TRUE]

\* _set_menisci skipping a throat that already holds a meniscus and
\* clearing its contested flag
SetMeniscusUnflagsOccupied(st, base_pore, th, q) ==
    IF st.men[th] # << >> THEN [st EXCEPT !.tcont[th] = FALSE]
    ELSE IF base_pore = P2(th)
    THEN IF q[th] < 0 THEN st
         ELSE [st EXCEPT !.men[th] = Append(@, ONE), !.tcont[th] = TRUE]
    ELSE IF q[th] > 0 THEN st
         ELSE [st EXCEPT !.men[th] = <<0>> \o @, !.sup[th] = -@,
                         !.tcont[th] = TRUE]

\* body of the loop of _set_menisci for one throat, lines 684-699
SetMeniscus(st, base_pore, th, q) ==
    IF base_pore = P2(th)
    THEN IF q[th] < 0 THEN st
         ELSE [st EXCEPT !.men[th] = Append(@, ONE), !.tcont[th] = TRUE]
    ELSE IF q[th] > 0 THEN st
         ELSE [st EXCEPT !.men[th] = <<0>> \o @, !.sup[th] = -@,
                         !.tcont[th] = TRUE]

\* _set_menisci, lines 682-699
RECURSIVE SetMenisci(_, _, _, _)
SetMenisci(st, base_pore, Ts, q) ==
    IF Ts = << >> THEN st
    ELSE SetMenisci(SetMeniscus(st, base_pore, Head(Ts), q), base_pore,
                    Tail(Ts), q)

\* _advance_zero_vol_throat testing the invaded flag of the first pore for
\* either direction of flow (line 654 reading p1)
AdvanceZeroVolThroatFirstPore(st, th, q) ==
    IF q[th] < 0
    THEN [st EXCEPT !.men[th] = <<ONE>>,
                    !.tinv[th] = IF st.pinvd[P1(th)] THEN ONE ELSE 0]
    ELSE [st EXCEPT !.men[th] = <<0>>,
                    !.tinv[th] = IF st.pinvd[P1(th)] THEN ONE ELSE 0]

\* _advance_zero_vol_throat, lines 640-657
AdvanceZeroVolThroat(st, th, q) ==
    IF q[th] < 0
    THEN [st EXCEPT !.men[th] = <<ONE>>,
                    !.tinv[th] = IF st.pinvd[P1(th)] THEN ONE ELSE 0]
    ELSE [st EXCEPT !.men[th] = <<0>>,
                    !.tinv[th] = IF st.pinvd[P2(th)] THEN ONE ELSE 0]

\* _fill_pore without the assignments to pore.invaded, lines 666 and 669
FillPoreKeepsInvadedFlag(st, pore, q) ==
    LET r == Round(st.pinv[pore])
        sf == IF r = 1 THEN -1 ELSE 1
        s1 == [st EXCEPT !.pinv[pore] = r * ONE]
        Ts == NeighborThroats(pore)
        sel == SelectSeq(Ts, LAMBDA th : SupplyFact(s1.men, s1.sup, th, pore) = sf)
        s2 == SetMenisci(s1, pore, sel, q)
        first == SupplyFact(s2.men, s2.sup, Ts[1], pore)
        uniform == \A i \in 1..Len(Ts) :
                      SupplyFact(s2.men, s2.sup, Ts[i], pore) = first
    IN [s2 EXCEPT !.pcont[pore] = ~uniform]

\* _fill_pore, lines 659-680
FillPore(st, pore, q) ==
    LET r == Round(st.pinv[pore])
        nowInvaded == (r = 1)
        sf == IF nowInvaded THEN -1 ELSE 1
        s1 == [st EXCEPT !.pinv[pore] = r * ONE, !.pinvd[pore] = nowInvaded]
        Ts == NeighborThroats(pore)
        sel == SelectSeq(Ts, LAMBDA th : SupplyFact(s1.men, s1.sup, th, pore) = sf)
        s2 == SetMenisci(s1, pore, sel, q)
        first == SupplyFact(s2.men, s2.sup, Ts[1], pore)
        uniform == \A i \in 1..Len(Ts) :
                      SupplyFact(s2.men, s2.sup, Ts[i], pore) = first
    IN [s2 EXCEPT !.pcont[pore] = ~uniform]

(***************************************************************************)
(* _calculate_dt, lines 348-417.                                           *)
(***************************************************************************)
ContestedThroats == {th \in Throats : tcontested[th]}
ContestedPores == {p \in Pores : pcontested[p]}

Flow(th) == ThroatFlow(menisci, sup_fact, conductance, pressure, th)

\* self._th_q as the three loops of _calculate_dt leave it: the flow of
\* every contested throat (line 372) and of every throat next to a
\* contested pore (line 403), zero elsewhere (line 356)
DtThroatFlows ==
    [th \in Throats |->
        IF tcontested[th] \/ pcontested[P1(th)] \/ pcontested[P2(th)]
        THEN Flow(th) ELSE 0]

\* lines 360-364 without the test of the throat volume
DtKeepsZeroVolThroats(d) == d

\* lines 360-364
DtAfterZeroVolThroats(d) ==
    IF \E th \in ContestedThroats : net.tvol[th] = 0 THEN 0 ELSE d

\* lines 375-382 with the comparison of line 381 turned round: the largest
\* of the throats' bounds is taken
RECURSIVE DtThroatLoopTakesLargest(_, _, _)
DtThroatLoopTakesLargest(Ts, q, d) ==
    IF Ts = << >> THEN d
    ELSE LET th == Head(Ts)
             dx_max == SetDxMax(menisci, q[th], th)
             dt_new == Div0(dx_max * net.tlen[th] * net.tarea[th] * TimeScale,
                            Abs(q[th]))
         IN DtThroatLoopTakesLargest(Tail(Ts), q,
                IF q[th] # 0 /\ dt_new > d THEN dt_new ELSE d)

\* lines 375-382
RECURSIVE DtThroatLoop(_, _, _)
DtThroatLoop(Ts, q, d) ==
    IF Ts = << >> THEN d
    ELSE LET th == Head(Ts)
             dx_max == SetDxMax(menisci, q[th], th)
             dt_new == Div0(dx_max * net.tlen[th] * net.tarea[th] * TimeScale,
                            Abs(q[th]))
         IN DtThroatLoop(Tail(Ts), q,
                IF q[th] # 0 /\ dt_new < d THEN dt_new ELSE d)

\* lines 395-408: net invading-phase flow into pore p
RECURSIVE QsumLoop(_, _, _)
QsumLoop(Ts, p, q) ==
    IF Ts = << >> THEN 0
    ELSE LET th == Head(Ts)
             qp == IF p = P2(th) THEN -q[th] ELSE q[th]
         IN (IF SupplyFact(menisci, sup_fact, th, p) > 0 THEN qp ELSE 0)
            + QsumLoop(Tail(Ts), p, q)

DtPoreQsum(q) ==
    [p \in Pores |->
        IF pcontested[p] THEN QsumLoop(NeighborThroats(p), p, q) ELSE 0]

\* lines 385-416 without the bound of lines 411-416
RECURSIVE DtPoreLoopWithoutBound(_, _, _)
DtPoreLoopWithoutBound(Ps, qs, d) ==
    IF Ps = << >> THEN d
    ELSE DtPoreLoopWithoutBound(Tail(Ps), qs,
                                IF net.pvol[Head(Ps)] = 0 THEN 0 ELSE d)

\* lines 385-416
RECURSIVE DtPoreLoop(_, _, _)
DtPoreLoop(Ps, qs, d) ==
    IF Ps = << >> THEN d
    ELSE LET p == Head(Ps)
             d0 == IF net.pvol[p] = 0 THEN 0 ELSE d
             dv_max == SetDvMax(pinv[p], qs[p])
             dt_new == Div0(dv_max * net.pvol[p] * TimeScale, Abs(qs[p]))
         IN DtPoreLoop(Tail(Ps), qs,
                IF qs[p] # 0 /\ dt_new < d0 THEN dt_new ELSE d0)

\* line 355
DefaultDt == Div0(NetVol * DefaultDtPercent * TimeScale, inj_rate)

\* the value _calculate_dt returns
CalcDtValue ==
    LET q == DtThroatFlows
        d1 == DtAfterZeroVolThroats(DefaultDt)
        d2 == DtThroatLoop(Ascending(ContestedThroats), q, d1)
    IN DtPoreLoop(Ascending(ContestedPores), DtPoreQsum(q), d2)

(***************************************************************************)
(* _advance_interface, lines 419-501.                                      *)
(***************************************************************************)

\* lines 450-476: removal of a meniscus that reached a throat end; sv is
\* the sign of v
RemoveAtBoundary(st, th, sv, tol) ==
    LET ms == st.men[th]
        s1 == IF ms[Len(ms)] > ONE - tol /\ sv < 0
              THEN LET adj == (ONE - ms[Len(ms)]) * st.sup[th]
                   IN [st EXCEPT !.men[th] = SubSeq(ms, 1, Len(ms) - 1),
                                 !.tinv[th] = @ + adj,
                                 !.pinv[P2(th)] = @ - adj,
                                 !.pcont[P2(th)] = TRUE]
              ELSE IF ms[1] < tol /\ sv > 0
              THEN LET adj == ms[1] * st.sup[th]
                   IN [st EXCEPT !.men[th] = Tail(ms),
                                 !.sup[th] = -@,
                                 !.tinv[th] = @ + adj,
                                 !.pinv[P1(th)] = @ - adj,
                                 !.pcont[P1(th)] = TRUE]
              ELSE st
    IN IF Len(s1.men[th]) = 0 THEN [s1 EXCEPT !.tcont[th] = FALSE] ELSE s1

\* lines 428-476: one pass of the throat loop
AdvanceThroat(st, th, q, d, tol) ==
    LET dx == Div0(-(q[th] * d), net.tarea[th] * net.tlen[th] * TimeScale)
        ph_frac == IF Len(st.men[th]) % 2 = 0 THEN 0 ELSE dx * st.sup[th]
        s1 == [st EXCEPT !.men[th] = [i \in 1..Len(@) |-> @[i] + dx],
                         !.tinv[th] = @ + ph_frac]
    IN IF net.tvol[th] = 0
       THEN LET m == s1.men[th][1]
                s2 == AdvanceZeroVolThroat(s1, th, q)
                dx2 == s2.men[th][1] - m
            IN RemoveAtBoundary(s2, th, Sign(-dx2), tol)
       ELSE RemoveAtBoundary(s1, th, Sign(q[th]), tol)

RECURSIVE AdvanceThroats(_, _, _, _, _)
AdvanceThroats(st, Ts, q, d, tol) ==
    IF Ts = << >> THEN st
    ELSE AdvanceThroats(AdvanceThroat(st, Head(Ts), q, d, tol), Tail(Ts), q,
                        d, tol)

\* lines 479-501: one pass of the pore loop
AdvancePore(st, p, q, qs, d, tol) ==
    LET qsum == qs[p]
        frac == IF net.pvol[p] = 0
                THEN IF qsum > 0 THEN ONE ELSE 0
                ELSE st.pinv[p] + Div0(d * qsum, net.pvol[p] * TimeScale)
        s1 == [st EXCEPT !.pinv[p] = frac]
    IN IF frac > ONE - tol
       THEN IF qsum >= 0 THEN FillPore(s1, p, q) ELSE s1
       ELSE IF frac < tol
       THEN IF qsum <= 0 THEN FillPore(s1, p, q) ELSE s1
       ELSE s1

RECURSIVE AdvancePores(_, _, _, _, _, _)
AdvancePores(st, Ps, q, qs, d, tol) ==
    IF Ps = << >> THEN st
    ELSE AdvancePores(AdvancePore(st, Head(Ps), q, qs, d, tol), Tail(Ps), q,
                      qs, d, tol)

\* _advance_interface(dt) with line 424 placed after the throat loop: the
\* contested pores are collected when the throats have been advanced
AdvanceInterfaceValueLateList(st, q, qs, d, tol) ==
    LET contested_throats == Ascending({th \in Throats : st.tcont[th]})
        s1 == AdvanceThroats(st, contested_throats, q, d, tol)
        contested_pores == Ascending({p \in Pores : s1.pcont[p]})
    IN AdvancePores(s1, contested_pores, q, qs, d, tol)

\* _advance_interface(dt): the contested pores are collected before the
\* throat loop (line 424)
AdvanceInterfaceValue(st, q, qs, d, tol) ==
    LET contested_pores == Ascending({p \in Pores : st.pcont[p]})
        contested_throats == Ascending({th \in Throats : st.tcont[th]})
        s1 == AdvanceThroats(st, contested_throats, q, d, tol)
    IN AdvancePores(s1, contested_pores, q, qs, d, tol)

(***************************************************************************)
(* _calc_fluid_out, lines 503-535.                                         *)
(***************************************************************************)
OutletThroats == {th \in Throats : P1(th) \in outletsIdx \/ P2(th) \in outletsIdx}

\* signed flow into outlet pore p through its neighbouring throats
RECURSIVE OutletInflow(_, _)
OutletInflow(Ts, p) ==
    IF Ts = << >> THEN 0
    ELSE LET th == Head(Ts)
         IN (IF p = P2(th) THEN -Flow(th) ELSE Flow(th))
            + OutletInflow(Tail(Ts), p)

InvOutRate ==
    SumOver([p \in Pores |-> IF pinvaded[p]
                             THEN OutletInflow(NeighborThroats(p), p) ELSE 0],
            outletsIdx)

DefOutRate ==
    SumOver([p \in Pores |-> IF pinvaded[p]
                             THEN 0 ELSE OutletInflow(NeighborThroats(p), p)],
            outletsIdx)

(***************************************************************************)
(* The calls of the public interface.                                      *)
(***************************************************************************)
\* the values a caller passes as max_steps
StepChoices == IF caller = "drain" THEN {LongRun} ELSE {ShortRun}

\* the values a caller passes as max_steps to restart_simulation
RestartChoices == {RestartRun}

LastPore == Len(net.pvol)

\* set_inlets and set_outlets are called before run and, by the
\* "reconfigure" and "redirect" callers, between a finished run and its
\* restart
Reconfiguring ==
    pc = "done" /\ caller \in {"reconfigure", "redirect"} /\ hist.restarts = 0

Configurable ==
    \/ pc = "ready" /\ hist.cfg < MaxCfgCalls
    \/ Reconfiguring /\ hist.cfg < MaxReconfigCalls

\* the pore sets a caller passes to set_inlets and to set_outlets
InletArgs ==
    IF caller = "drain" THEN {{1}, {2}}
    ELSE IF caller = "reconfigure"
    THEN IF Reconfiguring THEN {{p} : p \in Pores} ELSE {{1}}
    ELSE IF caller = "redirect"
    THEN IF Reconfiguring THEN {{LastPore}} ELSE {{1}, {LastPore}}
    ELSE {Ps \in {{1}, {2}, {3}, {1, 2}} : Ps \subseteq Pores}

OutletArgs ==
    IF caller = "drain" THEN {{LastPore}, {1}}
    ELSE IF caller = "reconfigure"
    THEN IF Reconfiguring THEN {{p} : p \in Pores} ELSE {{LastPore}}
    ELSE IF caller = "redirect"
    THEN IF Reconfiguring THEN {{1}} ELSE {{2}}
    ELSE {Ps \in {{1}, {2}, {3}, {1, 2}} : Ps \subseteq Pores}

ModeArgs ==
    IF caller = "drain" THEN {"add", "overwrite"}
    ELSE IF caller = "reconfigure"
    THEN IF Reconfiguring THEN {"add", "overwrite"} ELSE {"add"}
    ELSE IF caller = "redirect"
    THEN IF Reconfiguring THEN {"overwrite"} ELSE {"add"}
    ELSE Modes

Idle == pc \in {"new", "ready", "done", "error"}

\* hist.call when the last call was neither set_inlets nor set_outlets
NoCall == [op |-> "none", Ps |-> {}, mode |-> "none", again |-> FALSE]

\* hist.call of a call; again says that the call before it was the same
ThisCall(op, Ps, mode) ==
    [op |-> op, Ps |-> Ps, mode |-> mode,
     again |-> hist.call.op = op /\ hist.call.Ps = Ps
               /\ hist.call.mode = mode]

Init ==
    /\ pc = "new"
    /\ err = "none"
    /\ net \in Networks
    /\ caller \in Callers
    /\ net \in NetworksOf(caller)
    /\ inlets = {}
    /\ outlets = {}
    /\ outletsIdx = {}
    /\ outletsSet = FALSE
    /\ bcIn = {}
    /\ pinv = ZeroP
    /\ tinv = ZeroT
    /\ pcontested = [p \in Pores |-> FALSE]
    /\ tcontested = [th \in Throats |-> FALSE]
    /\ pinvaded = [p \in Pores |-> FALSE]
    /\ inj_rate = 0
    /\ th_q = ZeroT
    /\ pore_qsum = ZeroP
    /\ menisci = [th \in Throats |-> << >>]
    /\ sup_fact = [th \in Throats |-> -1]
    /\ sat_tol = 0
    /\ max_steps = 0
    /\ ts_num = 0
    /\ total_time = 0
    /\ bt_time = -1
    /\ bt_steps = 0
    /\ total_def_out = 0
    /\ total_inv_out = 0
    /\ inv_out_rate = 0
    /\ zero_dt = 0
    /\ conductance = net.gbase
    /\ gdef = net.gbase
    /\ rhs = ZeroP
    /\ pressure = ZeroP
    /\ dt = 0
    /\ hist = [setups |-> 0, cfg |-> 0, inletCalls |-> 0, outletCalls |-> 0,
               restarts |-> 0, steps |-> 0, btWrites |-> 0, call |-> NoCall,
               filled |-> {}, fresh |-> {}, lastStep |-> -1]

\* setup with the argument checks of lines 86-90 placed after the
\* assignments of lines 95-132
SetupFailsAfterAssigning(inj, invp, defBound) ==
    /\ Idle
    /\ inj = NoNumber \/ invp = None \/ ~defBound
    /\ err' = IF inj = NoNumber THEN "setup:injection_rate"
              ELSE IF invp = None THEN "setup:invading_phase"
              ELSE "setup:defending_phase"
    /\ inlets' = {}
    /\ outlets' = {}
    /\ pinv' = ZeroP
    /\ tinv' = ZeroT
    /\ pcontested' = [p \in Pores |-> FALSE]
    /\ tcontested' = [th \in Throats |-> FALSE]
    /\ pinvaded' = [p \in Pores |-> FALSE]
    /\ th_q' = ZeroT
    /\ pore_qsum' = ZeroP
    /\ menisci' = [th \in Throats |-> << >>]
    /\ sup_fact' = [th \in Throats |-> -1]
    /\ ts_num' = 0
    /\ total_time' = 0
    /\ bt_time' = -1
    /\ bt_steps' = 0
    /\ total_def_out' = 0
    /\ total_inv_out' = 0
    /\ inv_out_rate' = 0
    /\ UNCHANGED <<pc, net, caller, hist, outletsIdx, outletsSet, bcIn,
                   inj_rate, sat_tol, max_steps, zero_dt, conductance, gdef,
                   rhs, pressure, dt>>

\* setup raising at lines 86-93: nothing has been assigned yet.  Line 92
\* reads the local name defending_phase, which the signature of lines 35-44
\* does not bind although the docstring (lines 55-57) documents it as a
\* parameter; defBound says whether the name is bound when line 92 runs.
SetupFails(inj, invp, defBound) ==
    /\ Idle
    /\ inj = NoNumber \/ invp = None \/ ~defBound
    /\ err' = IF inj = NoNumber THEN "setup:injection_rate"
              ELSE IF invp = None THEN "setup:invading_phase"
              ELSE "setup:defending_phase"
    /\ UNCHANGED <<pc, net, caller, hist, solverState>>

\* setup, lines 95-132
Setup(inj, invp, defBound, tol, ms) ==
    /\ Idle
    /\ hist.setups < MaxSetups
    /\ inj # NoNumber /\ invp # None /\ defBound
    /\ pc' = "ready"
    /\ err' = "none"
    /\ inlets' = {}
    /\ outlets' = {}
    /\ pinv' = ZeroP
    /\ tinv' = ZeroT
    /\ pcontested' = [p \in Pores |-> FALSE]
    /\ tcontested' = [th \in Throats |-> FALSE]
    /\ pinvaded' = [p \in Pores |-> FALSE]
    /\ inj_rate' = inj[1]
    /\ th_q' = ZeroT
    /\ pore_qsum' = ZeroP
    /\ menisci' = [th \in Throats |-> << >>]
    /\ sup_fact' = [th \in Throats |-> -1]
    /\ sat_tol' = tol
    /\ max_steps' = ms
    /\ ts_num' = 0
    /\ total_time' = 0
    /\ bt_time' = -1
    /\ bt_steps' = 0
    /\ total_def_out' = 0
    /\ total_inv_out' = 0
    /\ inv_out_rate' = 0
    /\ conductance' = net.gbase
    /\ hist' = [hist EXCEPT !.setups = @ + 1, !.cfg = 0, !.inletCalls = 0,
                            !.outletCalls = 0, !.restarts = 0, !.steps = 0,
                            !.btWrites = 0, !.call = NoCall,
                            !.lastStep = -1]
    /\ UNCHANGED <<net, caller, outletsIdx, outletsSet, bcIn, zero_dt, gdef, rhs,
                   pressure, dt>>

\* find_neighbor_throats(pores=Ps, mode='intersection')
ThroatsWithin(Ps) == {th \in Throats : P1(th) \in Ps /\ P2(th) \in Ps}

\* find_neighbor_throats(pores=Ps, mode='not_intersection')
ThroatsCrossing(Ps) == {th \in Throats : (P1(th) \in Ps) # (P2(th) \in Ps)}

\* lines 174-179
RECURSIVE InletMenisci(_, _)
InletMenisci(st, Ts) ==
    IF Ts = << >> THEN st
    ELSE LET th == Head(Ts)
             base == IF st.pinvd[P1(th)] THEN P1(th) ELSE P2(th)
         IN InletMenisci(SetMeniscus(st, base, th, th_q), Tail(Ts))

\* 'mode is "remove"', lines 148 and 196: an identity test of two strings,
\* whose outcome for an equal string depends on interning (ident)
BoolVal(mode, ident) == ~(mode = "remove" /\ ident)

\* line 144 tested against pore.inlets instead of pore.outlets
InletsOverlapOwnFlags(Ps) == Ps \cap inlets # {}

\* sum(self['pore.outlets'][Ps]) > 0, line 144
InletsOverlap(Ps) == Ps \cap outlets # {}

\* set_inlets, lines 134-181
SetInlets(Ps, mode, ident) ==
    /\ Configurable
    /\ hist' = [hist EXCEPT !.cfg = @ + 1,
                            !.inletCalls = IF InletsOverlap(Ps)
                                           THEN @ ELSE @ + 1,
                            !.call = ThisCall("set_inlets", Ps, mode)]
    /\ LET in1 == IF mode \in {"clear", "overwrite"} THEN {} ELSE inlets
       IN IF InletsOverlap(Ps)
          THEN /\ inlets' = in1
               /\ err' = "set_inlets:overlap"
               /\ UNCHANGED <<pinv, tinv, pinvaded, tcontested, menisci,
                              sup_fact, bcIn>>
          ELSE LET in2 == IF BoolVal(mode, ident) THEN in1 \cup Ps
                          ELSE in1 \ Ps
                   st0 == [AdvState EXCEPT
                             !.pinv = [p \in Pores |->
                                          IF p \in in2 THEN ONE ELSE @[p]],
                             !.pinvd = [p \in Pores |-> p \in in2 \/ @[p]],
                             !.tinv = [th \in Throats |->
                                          IF th \in ThroatsWithin(in2)
                                          THEN ONE ELSE @[th]],
                             !.tcont = [th \in Throats |->
                                          th \in ThroatsCrossing(in2) \/ @[th]]]
                   st1 == InletMenisci(st0, Ascending(ThroatsCrossing(in2)))
               IN /\ inlets' = in2
                  /\ err' = "none"
                  /\ bcIn' = bcIn \cup in2
                  /\ pinv' = st1.pinv
                  /\ pinvaded' = st1.pinvd
                  /\ tinv' = st1.tinv
                  /\ tcontested' = st1.tcont
                  /\ menisci' = st1.men
                  /\ sup_fact' = st1.sup
    /\ UNCHANGED <<pc, net, caller, outlets, outletsIdx, outletsSet, pcontested,
                   inj_rate, th_q, pore_qsum, sat_tol, max_steps, ts_num,
                   total_time, bt_time, bt_steps, total_def_out,
                   total_inv_out, inv_out_rate, zero_dt, conductance, gdef,
                   rhs, pressure, dt>>

\* line 192 tested against pore.outlets instead of pore.inlets
OutletsOverlapOwnFlags(Ps) == Ps \cap outlets # {}

\* sum(self['pore.inlets'][Ps]) > 0, line 192
OutletsOverlap(Ps) == Ps \cap inlets # {}

\* set_outlets, lines 183-204
SetOutlets(Ps, mode, ident) ==
    /\ Configurable
    /\ hist' = [hist EXCEPT !.cfg = @ + 1,
                            !.outletCalls = IF OutletsOverlap(Ps)
                                            THEN @ ELSE @ + 1,
                            !.call = ThisCall("set_outlets", Ps, mode)]
    /\ LET out1 == IF mode \in {"clear", "overwrite"} THEN {} ELSE outlets
       IN IF OutletsOverlap(Ps)
          THEN /\ outlets' = out1
               /\ err' = "set_outlets:overlap"
               /\ UNCHANGED <<outletsIdx, outletsSet>>
          ELSE LET out2 == IF BoolVal(mode, ident) THEN out1 \cup Ps
                           ELSE out1 \ Ps
               IN /\ outlets' = out2
                  /\ outletsIdx' = out2
                  /\ outletsSet' = TRUE
                  /\ err' = "none"
    /\ UNCHANGED <<pc, net, caller, inlets, bcIn, pinv, tinv, pcontested, tcontested,
                   pinvaded, inj_rate, th_q, pore_qsum, menisci, sup_fact,
                   sat_tol, max_steps, ts_num, total_time, bt_time, bt_steps,
                   total_def_out, total_inv_out, inv_out_rate, zero_dt,
                   conductance, gdef, rhs, pressure, dt>>

\* sum of volume * inv_frac over pores and throats, in 1/ONE volume units
\* (lines 224-225, 299-300)
StoredVolume ==
    SumOver([p \in Pores |-> net.pvol[p] * pinv[p]], Pores)
    + SumOver([th \in Throats |-> net.tvol[th] * tinv[th]], Throats)

\* run, lines 206-232, up to the entry of the loop (line 253)
Run ==
    /\ pc = "ready"
    /\ pc' = "coef"
    /\ err' = "none"
    /\ gdef' = conductance
    /\ total_time' = Div0(StoredVolume * TimeScale, inj_rate)
    /\ zero_dt' = 0
    /\ hist' = [hist EXCEPT !.steps = 0, !.cfg = 0, !.call = NoCall]
    /\ UNCHANGED <<net, caller, inlets, outlets, outletsIdx, outletsSet, bcIn, pinv,
                   tinv, pcontested, tcontested, pinvaded, inj_rate, th_q,
                   pore_qsum, menisci, sup_fact, sat_tol, max_steps, ts_num,
                   bt_time, bt_steps, total_def_out, total_inv_out,
                   inv_out_rate, conductance, rhs, pressure, dt>>

\* restart_simulation that also starts the step counter and the clock anew
RestartSimulationFromZero(ms) ==
    /\ pc = "done"
    /\ hist.restarts < MaxRestarts
    /\ pc' = "coef"
    /\ err' = "none"
    /\ max_steps' = ms
    /\ zero_dt' = 0
    /\ ts_num' = 0
    /\ total_time' = 0
    /\ hist' = [hist EXCEPT !.restarts = @ + 1, !.steps = 0]
    /\ UNCHANGED <<net, caller, inlets, outlets, outletsIdx, outletsSet, bcIn, pinv,
                   tinv, pcontested, tcontested, pinvaded, inj_rate, th_q,
                   pore_qsum, menisci, sup_fact, sat_tol, bt_time, bt_steps,
                   total_def_out, total_inv_out, inv_out_rate, conductance,
                   gdef, rhs, pressure, dt>>

\* restart_simulation, lines 234-244, up to the entry of the loop
RestartSimulation(ms) ==
    /\ pc = "done"
    /\ hist.restarts < MaxRestarts
    /\ pc' = "coef"
    /\ err' = "none"
    /\ max_steps' = ms
    /\ zero_dt' = 0
    /\ hist' = [hist EXCEPT !.restarts = @ + 1, !.steps = 0]
    /\ UNCHANGED <<net, caller, inlets, outlets, outletsIdx, outletsSet, bcIn, pinv,
                   tinv, pcontested, tcontested, pinvaded, inj_rate, th_q,
                   pore_qsum, menisci, sup_fact, sat_tol, ts_num, total_time,
                   bt_time, bt_steps, total_def_out, total_inv_out,
                   inv_out_rate, conductance, gdef, rhs, pressure, dt>>

(***************************************************************************)
(* The body of the loop of _do_outer_iteration_stage, lines 254-295, one   *)
(* action per statement group.                                             *)
(***************************************************************************)

\* lines 321-327 with the viscosity ratio taken as invading / defending
MixedConductanceInverseRatio(th) ==
    LET dsum == net.dvisc[P1(th)] + net.dvisc[P2(th)]
        isum == net.ivisc[P1(th)] + net.ivisc[P2(th)]
        frac == tinv[th]
    IN Div0(gdef[th] * ((ONE - frac) * dsum + frac * isum), ONE * dsum)

\* _update_coefficient_matrix, lines 313-329
MixedConductance(th) ==
    LET dsum == net.dvisc[P1(th)] + net.dvisc[P2(th)]
        isum == net.ivisc[P1(th)] + net.ivisc[P2(th)]
        frac == tinv[th]
    IN Div0(gdef[th] * ((ONE - frac) * isum + frac * dsum), ONE * isum)

UpdateCoefficientMatrix ==
    /\ pc = "coef"
    /\ pc' = "rhs"
    /\ conductance' = [th \in Throats |-> MixedConductance(th)]
    /\ UNCHANGED <<err, net, caller, hist, inlets, outlets, outletsIdx, outletsSet,
                   bcIn, pinv, tinv, pcontested, tcontested, pinvaded,
                   inj_rate, th_q, pore_qsum, menisci, sup_fact, sat_tol,
                   max_steps, ts_num, total_time, bt_time, bt_steps,
                   total_def_out, total_inv_out, inv_out_rate, zero_dt, gdef,
                   rhs, pressure, dt>>

\* rhs_pcap_data of _update_rhs, lines 335-343
RhsPcapData ==
    [p \in Pores |->
        SumOver([th \in Throats |->
                    IF tcontested[th] /\ p \in {P1(th), P2(th)}
                    THEN conductance[th] * SumFpcap(menisci, sup_fact, th, p)
                    ELSE 0],
                Throats)]

UpdateRhs ==
    /\ pc = "rhs"
    /\ pc' = "solve"
    /\ rhs' = RhsPcapData
    /\ UNCHANGED <<err, net, caller, hist, inlets, outlets, outletsIdx, outletsSet,
                   bcIn, pinv, tinv, pcontested, tcontested, pinvaded,
                   inj_rate, th_q, pore_qsum, menisci, sup_fact, sat_tol,
                   max_steps, ts_num, total_time, bt_time, bt_steps,
                   total_def_out, total_inv_out, inv_out_rate, zero_dt,
                   conductance, gdef, pressure, dt>>

\* The linear solve (GenericLinearTransport.solve): the pressure field of
\* the boundary value problem.  Outlet pores are held at pressure 0, the
\* pores of the inlet group share one pressure and together pass the
\* injection rate into the network, and the flows of the throats of every
\* other pore cancel.
PRange == (-(PMax \div 2))..PMax

RECURSIVE NetOutflowLoop(_, _, _, _)
NetOutflowLoop(pr, fpc, p, n) ==
    IF n = 0 THEN 0
    ELSE LET q == FlowFormula(conductance[n], pr[P1(n)], pr[P2(n)], fpc[n])
         IN (IF P1(n) = p THEN -q ELSE IF P2(n) = p THEN q ELSE 0)
            + NetOutflowLoop(pr, fpc, p, n - 1)

\* flow leaving pore p through its throats under the pressure field pr;
\* fpc[th] is the capillary sum of throat th relative to its first pore
NetOutflow(pr, fpc, p) == NetOutflowLoop(pr, fpc, p, Len(net.conns))

SolvesSystem(pr, fpc) ==
    LET src == bcIn \ outletsIdx
    IN /\ outletsIdx # {}
       /\ \A p \in outletsIdx : pr[p] = 0
       /\ \A p \in Pores : pr[p] \in PRange
       /\ \A p, r \in src : pr[p] = pr[r]
       /\ \A p \in Pores \ (outletsIdx \cup src) : NetOutflow(pr, fpc, p) = 0
       /\ src # {} =>
            SumOver([p \in Pores |-> NetOutflow(pr, fpc, p)], src) = inj_rate

\* The unknowns of the system: one per pore that is no outlet, the pores of
\* the inlet group sharing one.  Unknown(p) is the pore standing for p's
\* unknown, 0 for an outlet.
Unknown(p) ==
    IF p \in outletsIdx THEN 0
    ELSE IF p \in bcIn THEN CHOOSE r \in bcIn \ outletsIdx :
                               \A x \in bcIn \ outletsIdx : r <= x
    ELSE p

Unknowns == Ascending({Unknown(p) : p \in Pores} \ {0})

\* coefficient of unknown r in the balance equation of unknown e
Coefficient(e, r) ==
    SumOver([th \in Throats |->
                LET a == Unknown(P1(th))
                    b == Unknown(P2(th))
                    ca == (IF a = r THEN 1 ELSE 0) - (IF b = r THEN 1 ELSE 0)
                IN conductance[th] * ((IF a = e THEN ca ELSE 0)
                                      - (IF b = e THEN ca ELSE 0))],
            Throats)

\* right-hand side of the balance equation of unknown e
RightHandSide(e, fpc) ==
    (IF e \in bcIn THEN inj_rate * ONE ELSE 0)
    - SumOver([th \in Throats |->
                  conductance[th] * fpc[th]
                  * ((IF Unknown(P1(th)) = e THEN 1 ELSE 0)
                     - (IF Unknown(P2(th)) = e THEN 1 ELSE 0))],
              Throats)

\* the solution of the balance equations in exact arithmetic (Cramer's
\* rule), truncated to integers; the empty set if the system is singular
\* or has more than two unknowns
ExactSolution(fpc) ==
    LET us == Unknowns
    IN IF Len(us) = 0 THEN {[p \in Pores |-> 0]}
       ELSE IF Len(us) = 1
       THEN LET a == Coefficient(us[1], us[1])
            IN IF a = 0 THEN {}
               ELSE {[p \in Pores |->
                        IF Unknown(p) = 0 THEN 0
                        ELSE Div0(RightHandSide(us[1], fpc), a)]}
       ELSE IF Len(us) = 2
       THEN LET a11 == Coefficient(us[1], us[1])
                a12 == Coefficient(us[1], us[2])
                a21 == Coefficient(us[2], us[1])
                a22 == Coefficient(us[2], us[2])
                b1 == RightHandSide(us[1], fpc)
                b2 == RightHandSide(us[2], fpc)
                det == a11 * a22 - a12 * a21
            IN IF det = 0 THEN {}
               ELSE {[p \in Pores |->
                        IF Unknown(p) = 0 THEN 0
                        ELSE IF Unknown(p) = us[1]
                        THEN Div0(b1 * a22 - a12 * b2, det)
                        ELSE Div0(a11 * b2 - a21 * b1, det)]}
       ELSE {}

\* the candidate pressure fields: the exact solution and the fields that
\* differ from it by one unit at pores that are no outlets, which the
\* truncation of the flows can make solutions too
PressureFields(fpc) ==
    UNION {{[p \in Pores |-> IF p \in outletsIdx THEN 0 ELSE x[p] + k[p]] :
               k \in [Pores -> {-1, 0, 1}]} : x \in ExactSolution(fpc)}

\* the capillary sum of every throat relative to its first pore
CapillarySums == [th \in Throats |-> SumFpcap(menisci, sup_fact, th, P1(th))]

\* The system has a solution on the fixed-point grid; it has none when no
\* pore has a fixed pressure (a singular matrix) and when the exact solution
\* is no grid point.
Solvable == \E pr \in PressureFields(CapillarySums) :
               SolvesSystem(pr, CapillarySums)

\* self.solve(A, b), line 257.  A run whose system has no solution on the
\* grid is not followed further: it stops at "unsolved".
Solve ==
    /\ pc = "solve"
    /\ IF Solvable
       THEN /\ \E pr \in PressureFields(CapillarySums) :
                  /\ SolvesSystem(pr, CapillarySums)
                  /\ pressure' = pr
            /\ pc' = "dt"
       ELSE /\ pc' = "unsolved"
            /\ UNCHANGED pressure
    /\ UNCHANGED <<err, net, caller, hist, inlets, outlets, outletsIdx, outletsSet,
                   bcIn, pinv, tinv, pcontested, tcontested, pinvaded,
                   inj_rate, th_q, pore_qsum, menisci, sup_fact, sat_tol,
                   max_steps, ts_num, total_time, bt_time, bt_steps,
                   total_def_out, total_inv_out, inv_out_rate, zero_dt,
                   conductance, gdef, rhs, dt>>

\* line 258 followed by a jump back to the head of the loop when dt is 0,
\* so that a zero time step is neither advanced nor counted
CalculateDtSkipsZeroStep ==
    /\ pc = "dt"
    /\ IF \E th \in ContestedThroats : menisci[th] = << >>
       THEN /\ pc' = "error"
            /\ err' = "calculate_dt:IndexError"
            /\ th_q' = [th \in Throats |->
                           IF tcontested[th] THEN Flow(th) ELSE 0]
            /\ pore_qsum' = ZeroP
            /\ dt' = dt
       ELSE /\ pc' = IF CalcDtValue = 0 THEN "coef" ELSE "export"
            /\ err' = err
            /\ th_q' = DtThroatFlows
            /\ pore_qsum' = DtPoreQsum(DtThroatFlows)
            /\ dt' = CalcDtValue
    /\ UNCHANGED <<net, caller, hist, inlets, outlets, outletsIdx, outletsSet, bcIn,
                   pinv, tinv, pcontested, tcontested, pinvaded, inj_rate,
                   menisci, sup_fact, sat_tol, max_steps, ts_num, total_time,
                   bt_time, bt_steps, total_def_out, total_inv_out,
                   inv_out_rate, zero_dt, conductance, gdef, rhs, pressure>>

\* dt = self._calculate_dt(), line 258.  _set_dx_max indexes the meniscus
\* list of every contested throat (lines 606-608): an empty list raises
\* IndexError after the flows of line 372 have been stored.
CalculateDt ==
    /\ pc = "dt"
    /\ IF \E th \in ContestedThroats : menisci[th] = << >>
       THEN /\ pc' = "error"
            /\ err' = "calculate_dt:IndexError"
            /\ th_q' = [th \in Throats |->
                           IF tcontested[th] THEN Flow(th) ELSE 0]
            /\ pore_qsum' = ZeroP
            /\ dt' = dt
       ELSE /\ pc' = "export"
            /\ err' = err
            /\ th_q' = DtThroatFlows
            /\ pore_qsum' = DtPoreQsum(DtThroatFlows)
            /\ dt' = CalcDtValue
    /\ UNCHANGED <<net, caller, hist, inlets, outlets, outletsIdx, outletsSet, bcIn,
                   pinv, tinv, pcontested, tcontested, pinvaded, inj_rate,
                   menisci, sup_fact, sat_tol, max_steps, ts_num, total_time,
                   bt_time, bt_steps, total_def_out, total_inv_out,
                   inv_out_rate, zero_dt, conductance, gdef, rhs, pressure>>

\* lines 260-273: the periodic snapshot export, which may raise (ok = FALSE),
\* and the count of zero time steps
ExportDue == ts_num % ExportFull = 0 \/ ts_num % ExportLight = 0

SnapshotExport(ok) ==
    /\ pc = "export"
    /\ IF ExportDue /\ ~ok
       THEN /\ pc' = "error"
            /\ err' = "export:IOError"
            /\ zero_dt' = zero_dt
       ELSE /\ pc' = "advance"
            /\ err' = err
            /\ zero_dt' = IF dt = 0 THEN zero_dt + 1 ELSE zero_dt
    /\ UNCHANGED <<net, caller, hist, inlets, outlets, outletsIdx, outletsSet, bcIn,
                   pinv, tinv, pcontested, tcontested, pinvaded, inj_rate,
                   th_q, pore_qsum, menisci, sup_fact, sat_tol, max_steps,
                   ts_num, total_time, bt_time, bt_steps, total_def_out,
                   total_inv_out, inv_out_rate, conductance, gdef, rhs,
                   pressure, dt>>

\* self._advance_interface(dt), line 277
\* the arrays as the throat loop of _advance_interface leaves them, before
\* the pore loop (lines 427-476)
ThroatPass ==
    AdvanceThroats(AdvState, Ascending(ContestedThroats), th_q, dt, sat_tol)

\* the arrays when the pore loop of _advance_interface comes to pore p: the
\* throat loop and the passes of the contested pores before p are done
PoreTurn(p) ==
    AdvancePores(ThroatPass, Ascending({r \in ContestedPores : r < p}),
                 th_q, pore_qsum, dt, sat_tol)

\* inv_frac of pore p as lines 482-488 update it
UpdatedFraction(st, p) ==
    IF net.pvol[p] = 0
    THEN IF pore_qsum[p] > 0 THEN ONE ELSE 0
    ELSE st.pinv[p] + Div0(dt * pore_qsum[p], net.pvol[p] * TimeScale)

\* the tests of lines 496-501 call _fill_pore for pore p
PoreFills(st, p) ==
    \/ UpdatedFraction(st, p) > ONE - sat_tol /\ pore_qsum[p] >= 0
    \/ /\ UpdatedFraction(st, p) <= ONE - sat_tol
       /\ UpdatedFraction(st, p) < sat_tol
       /\ pore_qsum[p] <= 0

\* the pores for which the pore loop calls _fill_pore in this step
FilledPores == {p \in ContestedPores : PoreFills(PoreTurn(p), p)}

\* the pores the throat loop of this step flags contested (line 471) that
\* were not contested before
FreshPores == {p \in Pores \ ContestedPores : ThroatPass.pcont[p]}

AdvanceInterface ==
    /\ pc = "advance"
    /\ pc' = "account"
    /\ LET st == AdvanceInterfaceValue(AdvState, th_q, pore_qsum, dt, sat_tol)
       IN /\ menisci' = st.men
          /\ tinv' = st.tinv
          /\ pinv' = st.pinv
          /\ sup_fact' = st.sup
          /\ tcontested' = st.tcont
          /\ pcontested' = st.pcont
          /\ pinvaded' = st.pinvd
    /\ hist' = [hist EXCEPT !.steps = @ + 1, !.filled = FilledPores,
                            !.fresh = FreshPores, !.lastStep = ts_num]
    /\ UNCHANGED <<err, net, caller, inlets, outlets, outletsIdx, outletsSet, bcIn,
                   inj_rate, th_q, pore_qsum, sat_tol, max_steps, ts_num,
                   total_time, bt_time, bt_steps, total_def_out,
                   total_inv_out, inv_out_rate, zero_dt, conductance, gdef,
                   rhs, pressure, dt>>

\* lines 278-279: self._total_time += dt; self._calc_fluid_out(dt).  Without
\* the attribute _outlets line 512 raises AttributeError.
CalcFluidOut ==
    /\ pc = "account"
    /\ total_time' = total_time + dt
    /\ IF ~outletsSet
       THEN /\ pc' = "error"
            /\ err' = "calc_fluid_out:AttributeError"
            /\ inv_out_rate' = 0
            /\ UNCHANGED <<th_q, total_inv_out, total_def_out>>
       ELSE /\ pc' = "test"
            /\ err' = err
            /\ inv_out_rate' = InvOutRate
            /\ th_q' = [th \in Throats |->
                           IF th \in OutletThroats THEN Flow(th) ELSE th_q[th]]
            /\ total_inv_out' = total_inv_out + InvOutRate * dt
            /\ total_def_out' = total_def_out + DefOutRate * dt
    /\ UNCHANGED <<net, caller, hist, inlets, outlets, outletsIdx, outletsSet, bcIn,
                   pinv, tinv, pcontested, tcontested, pinvaded, inj_rate,
                   pore_qsum, menisci, sup_fact, sat_tol, max_steps, ts_num,
                   bt_time, bt_steps, zero_dt, conductance, gdef, rhs,
                   pressure, dt>>

\* line 282
OutletSaturated == \E p \in outletsIdx : pinv[p] > ONE - sat_tol

\* line 288
\* abs(a - r) / r < 1e-9 for integers a, r with r > 0, that is
\* abs(a - r) * 10^9 <= r - 1
SteadyState == Abs(inv_out_rate - inj_rate) <= (inj_rate - 1) \div SteadyTolInv

\* the frame of the exit tests
TestFrame ==
    UNCHANGED <<err, net, caller, inlets, outlets, outletsIdx, outletsSet, bcIn,
                pinv, tinv, pcontested, tcontested, pinvaded, inj_rate,
                th_q, pore_qsum, menisci, sup_fact, sat_tol, max_steps,
                total_time, total_def_out, total_inv_out, inv_out_rate,
                zero_dt, conductance, gdef, rhs, pressure, dt>>

\* lines 282-295 without the test break_through_time < 0 of line 283
TerminationTestRecordsAgain ==
    /\ pc = "test"
    /\ IF OutletSaturated
       THEN /\ bt_time' = total_time
            /\ bt_steps' = ts_num
            /\ hist' = [hist EXCEPT !.btWrites = @ + 1]
       ELSE UNCHANGED <<bt_time, bt_steps, hist>>
    /\ IF SteadyState
       THEN pc' = "done" /\ ts_num' = ts_num
       ELSE IF ts_num > max_steps
       THEN pc' = "done" /\ ts_num' = ts_num
       ELSE pc' = "coef" /\ ts_num' = ts_num + 1
    /\ TestFrame

\* lines 282-295 with the break of line 286 in force
TerminationTestStopsAtBreakthrough ==
    /\ pc = "test"
    /\ IF OutletSaturated /\ bt_time < 0
       THEN /\ bt_time' = total_time
            /\ bt_steps' = ts_num
            /\ hist' = [hist EXCEPT !.btWrites = @ + 1]
            /\ pc' = "done"
            /\ ts_num' = ts_num
       ELSE /\ UNCHANGED <<bt_time, bt_steps, hist>>
            /\ IF SteadyState
               THEN pc' = "done" /\ ts_num' = ts_num
               ELSE IF ts_num > max_steps
               THEN pc' = "done" /\ ts_num' = ts_num
               ELSE pc' = "coef" /\ ts_num' = ts_num + 1
    /\ TestFrame

\* lines 282-295: breakthrough record, exit tests, step counter
TerminationTest ==
    /\ pc = "test"
    /\ IF OutletSaturated /\ bt_time < 0
       THEN /\ bt_time' = total_time
            /\ bt_steps' = ts_num
            /\ hist' = [hist EXCEPT !.btWrites = @ + 1]
       ELSE UNCHANGED <<bt_time, bt_steps, hist>>
    /\ IF SteadyState
       THEN pc' = "done" /\ ts_num' = ts_num
       ELSE IF ts_num > max_steps
       THEN pc' = "done" /\ ts_num' = ts_num
       ELSE pc' = "coef" /\ ts_num' = ts_num + 1
    /\ TestFrame

Next ==
    \/ \E inj \in RateArgs, invp \in {"phase", None}, defBound \in BOOLEAN :
          SetupFails(inj, invp, defBound)
    \/ \E inj \in RateArgs, tol \in SatTols, ms \in StepChoices :
          Setup(inj, "phase", TRUE, tol, ms)
    \/ \E Ps \in InletArgs, mode \in ModeArgs, ident \in BOOLEAN :
          SetInlets(Ps, mode, ident)
    \/ \E Ps \in OutletArgs, mode \in ModeArgs, ident \in BOOLEAN :
          SetOutlets(Ps, mode, ident)
    \/ Run
    \/ \E ms \in RestartChoices : RestartSimulation(ms)
    \/ UpdateCoefficientMatrix
    \/ UpdateRhs
    \/ Solve
    \/ CalculateDt
    \/ \E ok \in BOOLEAN : SnapshotExport(ok)
    \/ AdvanceInterface
    \/ CalcFluidOut
    \/ TerminationTest

Spec == Init /\ [][Next]_vars

\* The statements of the loop body run one after the other: a statement that
\* can run does run.
\* The interpreter runs the statements of the loop body one after the
\* other: inside the loop a statement is always ready, and running it moves
\* the control point.
LoopAdvances ==
    /\ pc \in {"coef", "rhs", "solve", "dt", "export", "advance", "account",
               "test"}
    /\ pc' \in {"coef", "rhs", "solve", "dt", "export", "advance", "account",
                "test", "done", "error", "unsolved"}
    /\ pc' # pc

SpecFair == Spec /\ WF_pc(LoopAdvances)

(***************************************************************************)
(* Properties.                                                             *)
(***************************************************************************)
InLoop ==
    pc \in {"coef", "rhs", "solve", "dt", "export", "advance", "account",
            "test"}

Sorted(ms) == \A i \in 1..(Len(ms) - 1) : ms[i] <= ms[i + 1]

\* every pore and throat inv_frac lies within [lo, hi]
InvFracWithin(lo, hi) ==
    /\ \A p \in Pores : pinv[p] >= lo /\ pinv[p] <= hi
    /\ \A th \in Throats : tinv[th] >= lo /\ tinv[th] <= hi

\* the inlets were set by one call of set_inlets with mode 'add', the
\* outlets by one call of set_outlets
ConfiguredOnce ==
    /\ hist.inletCalls = 1
    /\ hist.outletCalls = 1
    /\ inlets # {}
    /\ bcIn = inlets
    /\ outletsIdx # {}

\* no pore and no throat of the network has volume 0
NoZeroVolume ==
    /\ \A p \in Pores : net.pvol[p] # 0
    /\ \A th \in Throats : net.tvol[th] # 0

\* C1: after every time step of run or restart_simulation the inv_frac of
\* every pore and of every throat lies within [0, 1], also after a meniscus
\* crossed a throat boundary and its overshoot went to the neighbouring
\* pore.  Stated for the runs configured by one set_inlets and one
\* set_outlets call on a network without zero-volume pores and throats.
C1_InvFracWithinUnitInterval ==
    (hist.steps > 0 /\ ConfiguredOnce /\ NoZeroVolume)
    => InvFracWithin(0, ONE)

MassBalanceResidual ==
    total_time * inj_rate - StoredVolume * TimeScale - total_inv_out

\* the pores lie in a row: every throat carries the whole injected flow, and
\* the fixed-point steps are exact
SeriesNetwork == Len(net.conns) = Len(net.pvol) - 1

\* C4: when a run on a network without zero-volume pores and throats has
\* left the loop, |total_time * injection_rate - (stored invading volume +
\* cumulative invading outflow)| / total void volume is below 1e-6.  Stated
\* for the runs on a row of pores configured by one set_inlets and one
\* set_outlets call; 1e-6 is 1 / ONE^3.
C4_MassBalanceAtExit ==
    (pc = "done" /\ NoZeroVolume /\ SeriesNetwork /\ ConfiguredOnce)
    => Abs(MassBalanceResidual)
          <= (ONE * TimeScale * NetVol - 1) \div (ONE * ONE * ONE)

\* C5: between one setup and the next the breakthrough record is assigned
\* at most once, and when it is assigned an outlet pore has
\* inv_frac > 1 - sat_tol.
C5_BreakthroughRecordedOnce ==
    [][(/\ hist'.setups = hist.setups
        /\ \/ bt_time' # bt_time
           \/ bt_steps' # bt_steps
           \/ hist'.btWrites # hist.btWrites)
       => (hist.btWrites = 0 /\ hist'.btWrites = 1 /\ OutletSaturated)]_vars

\* a restarted loop has made a step with a saturated outlet pore and the
\* record of the first loop is still the only one
C5_RecordKeptByRestart ==
    /\ ConfiguredOnce
    /\ hist.restarts = 1
    /\ hist.steps > 0
    /\ hist.btWrites = 1
    /\ OutletSaturated
    /\ bt_time < total_time

\* C6: the loop ends after a step exactly if the outflow rate equals the
\* injection rate within 1e-9 or the step counter exceeds max_steps;
\* otherwise the next step starts, whether or not the step recorded the
\* breakthrough.
C6_LoopEndsOnlyOnExitTests ==
    [][(pc = "test" /\ pc' # "test")
       => /\ pc' \in {"done", "coef"}
          /\ pc' = "done" <=> (SteadyState \/ ts_num > max_steps)
          /\ pc' = "coef" => ts_num' = ts_num + 1]_vars

\* the step that recorded the breakthrough was followed by a next step
C6_ContinuedAfterBreakthrough ==
    /\ hist.inletCalls = 1
    /\ bcIn = inlets
    /\ hist.steps > 1
    /\ pc = "coef"
    /\ hist.btWrites = 1
    /\ bt_steps = ts_num - 1

\* C7: a run started with max_steps = N never makes more than N calls of
\* _advance_interface before its loop stops.  Stated for the runs
\* configured by one set_inlets and one set_outlets call.
C7_StepsWithinCap ==
    (hist.restarts = 0 /\ ConfiguredOnce) => hist.steps <= max_steps

\* C8: every run and every restart_simulation leaves the loop, by break or
\* by an exception, unless a linear solve gives no pressure field.
C8_LoopIsLeft == InLoop ~> pc \in {"done", "error", "unsolved"}

\* a loop whose every step had dt = 0 was left at the step cap
C8_LeftAfterZeroSteps ==
    /\ pc = "done"
    /\ hist.steps > 1
    /\ zero_dt = hist.steps
    /\ ts_num > max_steps

\* C9: the step of restart_simulation that enters the loop changes max_steps
\* and leaves the elapsed time, the step counter, the meniscus lists, the
\* supply factors, the inv_frac arrays, the invaded and contested flags, the
\* outflow totals and the breakthrough record as the previous loop left
\* them.
C9_RestartKeepsProgress ==
    [][(pc = "done" /\ pc' = "coef")
       => UNCHANGED <<total_time, ts_num, menisci, sup_fact, pinv, tinv,
                      pinvaded, pcontested, tcontested, total_inv_out,
                      total_def_out, bt_time, bt_steps>>]_vars

\* a restarted loop is at its first step with a new step cap, after a loop
\* that made steps, moved menisci and recorded the breakthrough
C9_RestartedAfterProgress ==
    /\ pc = "rhs"
    /\ hist.restarts = 1
    /\ hist.steps = 0
    /\ max_steps = RestartRun
    /\ ts_num > RestartRun
    /\ total_time > 0
    /\ total_inv_out > 0
    /\ bt_time >= 0

SetupArgumentErrors == {"setup:injection_rate", "setup:invading_phase"}

\* C10: a setup call that fails because injection_rate or invading_phase is
\* None changes no array, meniscus list, counter or parameter.
C10_FailedSetupAssignsNothing ==
    [][err' \in SetupArgumentErrors
       => UNCHANGED <<pc, net, solverState>>]_vars

\* setup failed for a None argument on an instance that has run
C10_FailedSetupAfterRun ==
    /\ err \in SetupArgumentErrors
    /\ pc = "done"
    /\ ts_num > 0
    /\ \E th \in Throats : menisci[th] # << >>


\* a step that is a setup call given an injection rate and an invading
\* phase: it completed, or it raised at line 92
SetupStepWithArguments ==
    \/ hist'.setups = hist.setups + 1
    \/ err' = "setup:defending_phase" /\ UNCHANGED <<pc, hist>>

\* the state setup leaves, lines 95-126
FreshState ==
    /\ inlets = {} /\ outlets = {}
    /\ \A p \in Pores : pinv[p] = 0 /\ ~pinvaded[p] /\ ~pcontested[p]
    /\ \A th \in Throats :
          tinv[th] = 0 /\ ~tcontested[th] /\ menisci[th] = << >>
          /\ sup_fact[th] = -1
    /\ ts_num = 0 /\ total_time = 0
    /\ total_inv_out = 0 /\ total_def_out = 0
    /\ bt_time = -1

\* C11: a setup call with a non-None invading_phase and a non-None
\* injection_rate completes without raising and leaves every pore and throat
\* array zero or false, the meniscus lists empty, the supply factors -1, the
\* step counter, elapsed time and outflow totals 0 and the breakthrough time
\* -1.
C11_SetupCompletes ==
    [][SetupStepWithArguments => (err' = "none" /\ pc' = "ready" /\ FreshState')]_vars


\* a step that is a set_inlets or set_outlets call; hist'.call holds its
\* arguments
ConfigStep == hist'.cfg = hist.cfg + 1

OverlapErrors == {"set_inlets:overlap", "set_outlets:overlap"}

\* C12: in every mode set_inlets raises when a requested pore is flagged as
\* an outlet at the call, and set_outlets raises when a requested pore is
\* flagged as an inlet at the call.
C12_OverlapRaises ==
    [][ConfigStep
       => /\ (hist'.call.op = "set_inlets" /\ hist'.call.Ps \cap outlets # {})
             => err' = "set_inlets:overlap"
          /\ (hist'.call.op = "set_outlets" /\ hist'.call.Ps \cap inlets # {})
             => err' = "set_outlets:overlap"]_vars

\* a set_outlets call in mode 'overwrite' raised for a pore that is an inlet
C12_OverwriteRaised ==
    /\ hist.call.op = "set_outlets"
    /\ hist.call.mode = "overwrite"
    /\ hist.call.Ps \cap inlets # {}
    /\ err = "set_outlets:overlap"

\* C13: a set_inlets or set_outlets call that raises for an overlap leaves
\* the inlet and the outlet flag of every pore as they were, in every mode.
C13_FailedCallKeepsFlags ==
    [][(ConfigStep /\ err' \in OverlapErrors)
       => (inlets' = inlets /\ outlets' = outlets)]_vars

\* C14: no pore is flagged both as an inlet and as an outlet.
C14_InletsOutletsDisjoint == inlets \cap outlets = {}

\* three calls were made, the last one raised, and both flag sets are in use
C14_AfterFailedCall ==
    /\ hist.cfg = 3
    /\ err \in OverlapErrors
    /\ inlets # {}
    /\ outlets # {}


\* C15: after every successful set_inlets call made between setup and run,
\* every throat that joins an inlet pore to a non-inlet pore is flagged
\* contested and holds exactly one meniscus, at the inlet end: position 0
\* when the inlet is the throat's first pore, position 1 when it is the
\* second.
C15_OneMeniscusAtInletEnd ==
    (pc = "ready" /\ hist.call.op = "set_inlets" /\ err = "none")
    => \A th \in ThroatsCrossing(inlets) :
          /\ tcontested[th]
          /\ menisci[th] = <<IF P1(th) \in inlets THEN 0 ELSE ONE>>

\* C16: after setup and successful set_inlets calls only, every throat
\* whose two pores are both inlets has inv_frac = 1, no meniscus and is not
\* flagged contested.
C16_ThroatsBetweenInletsFilled ==
    (pc = "ready" /\ hist.cfg > 0 /\ hist.inletCalls = hist.cfg)
    => \A th \in ThroatsWithin(inlets) :
          tinv[th] = ONE /\ menisci[th] = << >> /\ ~tcontested[th]


\* C17: a set_inlets call in mode 'overwrite' that repeats the call before
\* it leaves the inlet and invaded flag of every pore and the contested flag
\* of every throat as that call left them; a repeated set_outlets call in
\* mode 'overwrite' leaves the outlet flag of every pore as it was.
C17_OverwriteTwiceKeepsFlags ==
    [][(ConfigStep /\ hist'.call.again /\ hist'.call.mode = "overwrite")
       => IF hist'.call.op = "set_inlets"
          THEN /\ inlets' = inlets
               /\ pinvaded' = pinvaded
               /\ tcontested' = tcontested
          ELSE outlets' = outlets]_vars

\* set_inlets was called twice with the same pores in mode 'overwrite' and
\* the second call added a second meniscus to an inlet throat
C17_InletsOverwrittenTwice ==
    /\ hist.call.op = "set_inlets"
    /\ hist.call.mode = "overwrite"
    /\ hist.call.again
    /\ err = "none"
    /\ inlets = hist.call.Ps
    /\ \E th \in ThroatsCrossing(inlets) :
          tcontested[th] /\ Len(menisci[th]) = 2


\* sums of the viscosities of the two pores of a throat (twice the averages)
DefViscSum(th) == net.dvisc[P1(th)] + net.dvisc[P2(th)]
InvViscSum(th) == net.ivisc[P1(th)] + net.ivisc[P2(th)]

\* C18: when _update_coefficient_matrix has run, the conductance of every
\* throat is base * (1 - f + f * M), to the fixed-point unit, with f the
\* throat's inv_frac, base the conductance captured by run and M the ratio
\* of the defending to the invading viscosity averaged over the throat's
\* pores: exactly base when f = 0 and exactly base * M when f = 1, in the
\* first loop and after restart_simulation.
C18_ConductanceMixing ==
    pc = "rhs"
    => \A th \in Throats :
          /\ gdef[th] = net.gbase[th]
          /\ Abs(conductance[th] * ONE * InvViscSum(th)
                 - gdef[th] * ((ONE - tinv[th]) * InvViscSum(th)
                               + tinv[th] * DefViscSum(th)))
             < ONE * InvViscSum(th)
          /\ tinv[th] = 0 => conductance[th] = gdef[th]
          /\ tinv[th] = ONE
             => conductance[th] * InvViscSum(th) = gdef[th] * DefViscSum(th)

\* after a restart the conductances were recomputed with a viscosity ratio
\* of 2 for a full throat, a partly filled throat and an empty throat
C18_MixedAfterRestart ==
    /\ pc = "rhs"
    /\ hist.restarts = 1
    /\ \A th \in Throats : DefViscSum(th) = 2 * InvViscSum(th)
    /\ \E th \in Throats :
          tinv[th] = ONE /\ conductance[th] = 2 * gdef[th]
    /\ \E th \in Throats :
          tinv[th] > 0 /\ tinv[th] < ONE /\ conductance[th] > gdef[th]


\* the pore a throat's flow comes from: the first pore when the flow is
\* negative (lines 371, 647-652)
UpstreamPore(th) == IF th_q[th] < 0 THEN P1(th) ELSE P2(th)

C20_ExportFailureKeepsLoop ==
    [][(pc = "export" /\ ConfiguredOnce) => pc' = "advance"]_vars


\* C21: run raises before any time step when no inlet pore, or no outlet
\* pore, has been set since setup: whenever a step has just advanced the
\* interface, some pore is flagged inlet and some pore is an outlet.
C21_RunNeedsInletsAndOutlets ==
    pc = "account" => (inlets # {} /\ outletsIdx # {})


\* some contested throat or some contested pore has no volume
ZeroVolContested ==
    \/ \E th \in ContestedThroats : net.tvol[th] = 0
    \/ \E p \in ContestedPores : net.pvol[p] = 0

C25_ContestedIffMeniscus ==
    (\/ Idle /\ hist.call.op = "set_inlets" /\ err = "none"
     \/ pc = "account")
    => \A th \in Throats : tcontested[th] <=> menisci[th] # << >>


\* total length of the invading-phase segments of a throat cut at the
\* positions ms, the phases alternating from position lo on, where the
\* segment starting at lo is invading phase if inv
RECURSIVE InvadingLength(_, _, _)
InvadingLength(ms, lo, inv) ==
    IF ms = << >> THEN (IF inv THEN ONE - lo ELSE 0)
    ELSE (IF inv THEN Head(ms) - lo ELSE 0)
         + InvadingLength(Tail(ms), Head(ms), ~inv)

\* C26: after a successful set_inlets and after every advance of the
\* interface each throat's inv_frac is, to within sat_tol, the length of its
\* invading-phase segments, which start at the first pore's end with the
\* invading phase exactly if the throat's supply factor is +1.
C26_InvFracMatchesMenisci ==
    (\/ Idle /\ hist.call.op = "set_inlets" /\ err = "none"
     \/ pc = "account")
    => \A th \in Throats :
          Abs(tinv[th] - InvadingLength(menisci[th], 0, sup_fact[th] = 1))
             <= sat_tol


\* the menisci of a contested throat after the displacement of line 432 or,
\* in a throat of zero volume, after the rule of lines 440-444
Displaced(th) ==
    IF net.tvol[th] = 0
    THEN IF th_q[th] < 0 THEN <<ONE>> ELSE <<0>>
    ELSE LET dx == Div0(-(th_q[th] * dt),
                        net.tarea[th] * net.tlen[th] * TimeScale)
         IN [i \in 1..Len(menisci[th]) |-> menisci[th][i] + dx]

\* the menisci of the throat move towards its first pore (v > 0, lines 429
\* and 444)
TowardsFirstPore(th) ==
    IF net.tvol[th] = 0 THEN Displaced(th)[1] < menisci[th][1]
    ELSE th_q[th] > 0

\* the throat loop takes the lowest meniscus out at the 0 end
RemovedAtZeroEnd(th) ==
    /\ tcontested[th]
    /\ Displaced(th)[1] < sat_tol
    /\ TowardsFirstPore(th)
    /\ ThroatPass.men[th] = Tail(Displaced(th))

\* the throat loop takes the highest meniscus out at the 1 end
RemovedAtOneEnd(th) ==
    /\ tcontested[th]
    /\ ~TowardsFirstPore(th)
    /\ Len(ThroatPass.men[th]) = Len(Displaced(th)) - 1

\* from is the list before, to the list after insertions of menisci at the
\* ends; a meniscus has been put in at the 0 end
InsertedAtZeroEnd(from, to) ==
    to = <<0>> \o from \/ to = <<0>> \o from \o <<ONE>>

InsertedAtOneEndOnly(from, to) == to = from \o <<ONE>>

\* C27: a throat's supply factor changes sign exactly when a meniscus is
\* put in at its 0 end (set_inlets, pore filling) or taken out at its 0 end
\* while moving towards the first pore; displacement, the zero-volume rule,
\* removal at the 1 end and insertion at the 1 end leave it unchanged, and
\* the throat loop of one step takes at most one meniscus out of a throat.
C27_SupplyFactorFlips ==
    [][/\ (pc = "advance" /\ pc' = "account") =>
           \A th \in Throats :
              /\ (ThroatPass.sup[th] # sup_fact[th]) <=> RemovedAtZeroEnd(th)
              /\ RemovedAtOneEnd(th) => ThroatPass.sup[th] = sup_fact[th]
              /\ Len(menisci[th]) - Len(ThroatPass.men[th]) <= 1
              /\ (sup_fact'[th] # ThroatPass.sup[th])
                    <=> InsertedAtZeroEnd(ThroatPass.men[th], menisci'[th])
              /\ (sup_fact'[th] = ThroatPass.sup[th])
                    => \/ menisci'[th] = ThroatPass.men[th]
                       \/ InsertedAtOneEndOnly(ThroatPass.men[th], menisci'[th])
       /\ (hist'.call.op = "set_inlets" /\ hist'.cfg # hist.cfg) =>
           \A th \in Throats :
              /\ (sup_fact'[th] # sup_fact[th])
                    <=> InsertedAtZeroEnd(menisci[th], menisci'[th])
              /\ (sup_fact'[th] = sup_fact[th])
                    => \/ menisci'[th] = menisci[th]
                       \/ InsertedAtOneEndOnly(menisci[th], menisci'[th])
      ]_vars


\* the flow of throat th runs from pore p into the throat, or from the
\* throat into pore p (negative _th_q runs from the first pore to the second)
FlowLeavesPore(p, th) == IF p = P1(th) THEN th_q[th] < 0 ELSE th_q[th] > 0
FlowEntersPore(p, th) == IF p = P1(th) THEN th_q[th] > 0 ELSE th_q[th] < 0

\* the menisci ms of throat th with one more at the end of pore p
WithMeniscusAt(ms, p, th) ==
    IF p = P1(th) THEN <<0>> \o ms ELSE Append(ms, ONE)

\* the supply factor of the phase pore p held before it was filled or
\* emptied: +1 for the invading phase
PreviousPhase(st, p) == IF st.pinvd[p] THEN 1 ELSE -1

\* the menisci every throat of pore p has after _fill_pore: a throat whose
\* supply factor matches gets a meniscus unless it is skipped; the throats
\* skipped are those whose flow enters the pore (skipInflow) or those whose
\* flow leaves it
FillPoreLeaves(p, skipInflow) ==
    LET st == PoreTurn(p)
        after == AdvancePore(st, p, th_q, pore_qsum, dt, sat_tol)
    IN \A i \in 1..Len(NeighborThroats(p)) :
          LET th == NeighborThroats(p)[i]
          IN after.men[th] =
               IF /\ SupplyFact(st.men, st.sup, th, p) = PreviousPhase(st, p)
                  /\ ~(IF skipInflow THEN FlowEntersPore(p, th)
                                     ELSE FlowLeavesPore(p, th))
               THEN WithMeniscusAt(st.men[th], p, th)
               ELSE st.men[th]


\* _fill_pore runs for pore p in this step and changes its invaded flag
PoreChangesPhase(p) ==
    /\ PoreFills(PoreTurn(p), p)
    /\ AdvancePore(PoreTurn(p), p, th_q, pore_qsum, dt, sat_tol).pinvd[p]
          # PoreTurn(p).pinvd[p]

C29_FilledPoresAreRounded ==
    [][(pc = "advance" /\ pc' = "account") =>
         \A p \in ContestedPores :
            LET frac == UpdatedFraction(ThroatPass, p)
                full == frac > ONE - sat_tol /\ pore_qsum[p] >= 0
                empty == frac < sat_tol /\ pore_qsum[p] <= 0
            IN /\ full => (pinv'[p] = ONE /\ pinvaded'[p])
               /\ empty => (pinv'[p] = 0 /\ ~pinvaded'[p])
               /\ (~full /\ ~empty) => (pinvaded'[p] = pinvaded[p])]_vars

\* a step has filled a pore of non-zero volume that is no inlet, from a
\* fraction short of 1
C29_PoreFilledByFlow ==
    /\ pc = "account"
    /\ \E p \in hist.filled \ bcIn :
          /\ net.pvol[p] # 0
          /\ pore_qsum[p] > 0
          /\ pinv[p] = ONE
          /\ pinvaded[p]


\* C30: the pore loop of a step updates the pores that were contested
\* before the step's throat loop.  A pore that was not contested then ends
\* the step with the inv_frac the throat loop left (the overshoot
\* transfers) and with its invaded flag; a pore that was contested has the
\* flow-driven fraction, rounded if _fill_pore ran; and a throat that was
\* not contested keeps its inv_frac and has no meniscus moved, only menisci
\* put in at its ends.
C30_PoresContestedBeforeStep ==
    [][(pc = "advance" /\ pc' = "account") =>
         /\ \A p \in Pores \ ContestedPores :
               /\ pinv'[p] = ThroatPass.pinv[p]
               /\ pinvaded'[p] = pinvaded[p]
         /\ \A p \in ContestedPores :
               pinv'[p] = IF PoreFills(ThroatPass, p)
                          THEN Round(UpdatedFraction(ThroatPass, p)) * ONE
                          ELSE UpdatedFraction(ThroatPass, p)
         /\ \A th \in Throats \ ContestedThroats :
               /\ tinv'[th] = tinv[th]
               /\ \/ menisci'[th] = menisci[th]
                  \/ InsertedAtZeroEnd(menisci[th], menisci'[th])
                  \/ InsertedAtOneEndOnly(menisci[th], menisci'[th])]_vars

\* a step in which a meniscus crossed into a pore that was not contested: the
\* pore took the overshoot, is contested now and was neither filled nor
\* emptied although it meets the test for emptying
C30_PoreFirstContested ==
    /\ pc = "account"
    /\ \E p \in hist.fresh :
          /\ pcontested[p]
          /\ pinv[p] # 0
          /\ pinv[p] < sat_tol
          /\ pore_qsum[p] = 0
          /\ p \notin hist.filled

\* the statements of the loop body in the order of lines 255-295
PhaseOrder ==
    <<"coef", "rhs", "solve", "dt", "export", "advance", "account", "test">>

PhaseIndex(ph) == CHOOSE i \in 1..Len(PhaseOrder) : PhaseOrder[i] = ph

\* a step of the loop body goes to the statement that follows, leaves the
\* loop by an exception, or, from the exit tests, starts the next iteration
\* or leaves the loop
PhaseStepInOrder ==
    \/ pc = "test" /\ pc' \in {"coef", "done"}
    \/ pc # "test" /\ pc' \in {"error", "unsolved"}
    \/ pc # "test" /\ pc' \in {PhaseOrder[i] : i \in 1..Len(PhaseOrder)}
                   /\ PhaseIndex(pc') = PhaseIndex(pc) + 1

\* what each statement of the loop body finds computed by the statements
\* before it in the same iteration
PhaseInputsReady ==
    /\ pc = "rhs" => conductance = [th \in Throats |-> MixedConductance(th)]
    /\ pc = "solve" => rhs = RhsPcapData
    /\ pc = "dt" => SolvesSystem(pressure, CapillarySums)
    /\ pc \in {"export", "advance"} =>
          /\ dt = CalcDtValue
          /\ th_q = DtThroatFlows
          /\ pore_qsum = DtPoreQsum(DtThroatFlows)

\* C31: within every iteration of the loop the statements run in the order
\* conductances, capillary right-hand side, solve, dt, (export,) advance,
\* accounting, exit tests.  The conductances are those of the throat
\* fractions the step before left, the pressure solves the system of these
\* conductances and capillary sums, dt and the flows are those of that
\* pressure when the interfaces are advanced, the time and the outflow
\* totals are added to only after the advance and stay as they are in the
\* exit tests, and the first statement is only reached from the exit tests
\* or on entering the loop.
C31_PhasesInOrder ==
    /\ [](InLoop => PhaseInputsReady)
    /\ [][(InLoop /\ pc' # pc) => PhaseStepInOrder]_vars
    /\ [][(pc' = "coef" /\ pc # "coef") => pc \in {"test", "ready", "done"}]_vars
    /\ [][(pc = "account" /\ pc' = "test") =>
             /\ total_time' = total_time + dt
             /\ total_inv_out' = total_inv_out + InvOutRate * dt
             /\ total_def_out' = total_def_out + DefOutRate * dt]_vars
    /\ [][pc # "account" /\ InLoop =>
             UNCHANGED <<total_time, total_inv_out, total_def_out>>]_vars

\* the exit tests of a second iteration are reached after a first one that
\* moved the interfaces
C31_SecondIterationTested ==
    /\ pc = "test"
    /\ hist.steps >= 2
    /\ ts_num >= 1
    /\ dt > 0
    /\ \E th \in Throats : tinv[th] > 0 /\ tinv[th] < ONE

(***************************************************************************)
(* _sum_fpcap and _update_rhs on arbitrary meniscus lists: the arrays the  *)
(* two functions read are drawn from bounded sets and _update_rhs is run   *)
(* on them.                                                                *)
(***************************************************************************)

\* networks whose throats have a capillary entry pressure
FpcapNetworks ==
    {n \in Networks : Len(n.conns) <= 2 /\ \A th \in DOMAIN n.conns :
                                              n.maxpc[th] # 0}

\* meniscus positions: the two throat ends and the middle
FpcapPositions == {0, ONE \div 2, ONE}

\* the meniscus lists of a throat, sorted or not
MeniscusLists == UNION {[1..n -> FpcapPositions] : n \in 0..MaxMenisci}

InitFpcap ==
    /\ pc = "rhs"
    /\ err = "none"
    /\ net \in FpcapNetworks
    /\ caller = "configure"
    /\ inlets = {}
    /\ outlets = {}
    /\ outletsIdx = {}
    /\ outletsSet = FALSE
    /\ bcIn = {}
    /\ pinv = ZeroP
    /\ tinv = ZeroT
    /\ pcontested = [p \in Pores |-> FALSE]
    /\ tcontested \in [Throats -> BOOLEAN]
    /\ pinvaded = [p \in Pores |-> FALSE]
    /\ inj_rate = 0
    /\ th_q = ZeroT
    /\ pore_qsum = ZeroP
    /\ menisci \in [Throats -> MeniscusLists]
    /\ sup_fact \in [Throats -> {-1, 1}]
    /\ sat_tol = 0
    /\ max_steps = 0
    /\ ts_num = 0
    /\ total_time = 0
    /\ bt_time = -1
    /\ bt_steps = 0
    /\ total_def_out = 0
    /\ total_inv_out = 0
    /\ inv_out_rate = 0
    /\ zero_dt = 0
    /\ conductance \in [Throats -> {ONE, 2 * ONE}]
    /\ gdef = net.gbase
    /\ rhs = ZeroP
    /\ pressure = ZeroP
    /\ dt = 0
    /\ hist = [setups |-> 0, cfg |-> 0, inletCalls |-> 0, outletCalls |-> 0,
               restarts |-> 0, steps |-> 0, btWrites |-> 0, call |-> NoCall,
               filled |-> {}, fresh |-> {}, lastStep |-> -1]

NextFpcap == UpdateRhs

SpecFpcap == InitFpcap /\ [][NextFpcap]_vars

\* the capillary term line 343 adds to pore p for throat th
CapillaryTerm(th, p) == conductance[th] * SumFpcap(menisci, sup_fact, th, p)

\* C32: the capillary sum of a throat relative to its second pore is the
\* negation of the sum relative to its first pore, whatever the meniscus
\* list and the supply factor; and the vector _update_rhs builds holds, for
\* every pore, the terms of its contested throats, which are opposite at
\* the two pores of a throat, so that the vector sums to zero and is zero
\* at a pore none of whose throats is contested.
C32_CapillarySumsOpposite ==
    /\ \A th \in Throats :
          SumFpcap(menisci, sup_fact, th, P2(th))
             = -SumFpcap(menisci, sup_fact, th, P1(th))
    /\ pc = "solve" =>
          /\ \A th \in Throats : CapillaryTerm(th, P2(th))
                                    = -CapillaryTerm(th, P1(th))
          /\ \A p \in Pores :
                rhs[p] = SumOver([th \in Throats |->
                                     IF ~tcontested[th] THEN 0
                                     ELSE IF p = P1(th)
                                     THEN CapillaryTerm(th, P1(th))
                                     ELSE IF p = P2(th)
                                     THEN -CapillaryTerm(th, P1(th))
                                     ELSE 0], Throats)
          /\ SumOver(rhs, Pores) = 0
          /\ \A p \in Pores :
                (\A i \in 1..Len(NeighborThroats(p)) :
                    ~tcontested[NeighborThroats(p)[i]]) => rhs[p] = 0

\* _update_rhs has run on a contested throat with three menisci whose
\* capillary forces do not cancel, next to a throat that has menisci but is
\* not contested
C32_ThreeMenisciUnbalanced ==
    /\ pc = "solve"
    /\ \E th \in Throats :
          /\ tcontested[th]
          /\ Len(menisci[th]) = 3
          /\ rhs[P1(th)] # 0
          /\ rhs[P2(th)] = -rhs[P1(th)]
    /\ \E th \in Throats, p \in Pores :
          /\ ~tcontested[th]
          /\ SumFpcap(menisci, sup_fact, th, P1(th)) # 0
          /\ p \in {P1(th), P2(th)}
          /\ rhs[p] = 0

\* an outlet pore carries the invaded flag
OutletInvaded == \E p \in outletsIdx : pinvaded[p]

\* C33: the loop is never left by the steady-state test of line 288 with
\* break_through_time unset (negative), and a step of the program does not
\* add to the cumulative invading outflow while no outlet pore carries the
\* invaded flag.
C33_SteadyExitAfterBreakthrough ==
    /\ [][(pc = "test" /\ pc' = "done" /\ SteadyState) => bt_time' >= 0]_vars
    /\ [][~OutletInvaded =>
             (total_inv_out' = total_inv_out \/ total_inv_out' = 0)]_vars

\* C34: every step the loop executes (a call of _advance_interface) carries
\* a step number _ts_num greater than the number of the step executed
\* before it, whether that step belongs to the same loop or to the loop a
\* restart_simulation resumed.
C34_StepNumbersIncrease ==
    [][(pc = "advance" /\ pc' = "account") => ts_num > hist.lastStep]_vars

=============================================================================
